---------------------------- MODULE Spec2Model ----------------------------
(***************************************************************************)
(* A model of NSM.py: the Neural State Machine notebook.  The notebook is  *)
(* a straight-line program; the model follows it cell by cell (pc).        *)
(*                                                                         *)
(* Numbers.  Tensor entries are exact rationals <<n, d>> in lowest terms   *)
(* with d > 0.  exp is evaluated to a finite precision, as it is in        *)
(* float32: ExpQ(x) stands for exp(x) in units of 1/Precision, rounded     *)
(* down.  It is the rational approximant 1 + x (x >= 0), 1 / (1 - x)       *)
(* (x < 0) of exp, which like exp is positive, monotone and 1 at 0, and    *)
(* whose rounding underflows to 0 for a very negative argument.  F.softmax *)
(* subtracts the row maximum before it exponentiates; F.elu is x for x > 0 *)
(* and exp(x) - 1 otherwise.  Division is exact.                           *)
(***************************************************************************)
EXTENDS Integers, Sequences, FiniteSets, TLC

\* ------------------------------------------------------------ hyperparams
\* EMBD_DIM is 7 and BATCH is 32 in the notebook; the model keeps every axis
\* and every operation over it and runs them at a smaller width.
EMBD_DIM == 2
BATCH == 2
\* the number of simulation steps, and of property types before 'identity'
\* and 'relations' are added
N == 3
L == 2
\* exp is evaluated to multiples of 1/Precision
Precision == 8

Dims == 1..EMBD_DIM
Batch == 1..BATCH

\* the property types after 'identity' and 'relations' were added
property_types == <<"identity", "color", "material", "relations">>

nodes == <<"kitten", "person", "shirt">>
NodeIdx == 1..Len(nodes)

\* ------------------------------------------------------------ arithmetic
RECURSIVE GCD(_, _)
GCD(a, b) == IF b = 0 THEN a ELSE GCD(b, a % b)

Abs(x) == IF x < 0 THEN -x ELSE x

\* the rational n/d in lowest terms, d > 0
Rat(n, d) ==
    LET g == GCD(Abs(n), Abs(d))
        s == IF d < 0 THEN -1 ELSE 1
    IN  <<(s * n) \div g, (s * d) \div g>>

Q(x) == <<x, 1>>
Zero == Q(0)
One == Q(1)

\* sums and products cancel common factors before they multiply
RAdd(x, y) ==
    LET g == GCD(x[2], y[2])
    IN  Rat(x[1] * (y[2] \div g) + y[1] * (x[2] \div g), (x[2] \div g) * y[2])
RNeg(x) == <<-x[1], x[2]>>
RSub(x, y) == RAdd(x, RNeg(y))
RMul(x, y) ==
    LET g == GCD(Abs(x[1]), y[2])
        h == GCD(Abs(y[1]), x[2])
    IN  Rat((x[1] \div g) * (y[1] \div h), (x[2] \div h) * (y[2] \div g))
RLe(x, y) ==
    LET g == GCD(x[2], y[2])
    IN  x[1] * (y[2] \div g) <= y[1] * (x[2] \div g)
RLt(x, y) == ~RLe(y, x)

\* torch computes eagerly: the tensor t with every entry evaluated once
Eager(t) == IF t = t THEN t ELSE t

\* torch.sum over one axis: the sum of f[x] for x in the index set I
RECURSIVE RSum(_, _)
RSum(f, I) ==
    IF I = {} THEN Zero
    ELSE LET x == CHOOSE y \in I : TRUE
         IN  RAdd(f[x], RSum(f, I \ {x}))

RECURSIVE RMax(_, _)
RMax(f, I) ==
    LET x == CHOOSE y \in I : TRUE
    IN  IF I = {x} THEN f[x]
        ELSE LET rest == RMax(f, I \ {x})
             IN  IF RLe(rest, f[x]) THEN f[x] ELSE rest

\* exp(x) in units of 1/Precision, rounded down: 1 + x for x >= 0 and
\* 1 / (1 - x) for x < 0
ExpQ(x) ==
    IF x[1] >= 0 THEN (Precision * (x[2] + x[1])) \div x[2]
    ELSE (Precision * x[2]) \div (x[2] - x[1])

\* F.elu without the shift of its negative branch
ELUNoShift(x) == IF x[1] > 0 THEN x ELSE Rat(ExpQ(x), Precision)

\* F.elu
ELU(x) == IF x[1] > 0 THEN x ELSE Rat(ExpQ(x) - Precision, Precision)

\* softmax of the logits z over the index set I (one row of the tensor)
SoftmaxRow(z, I) ==
    LET mx == RMax(z, I)
        w == [x \in I |-> Q(ExpQ(RSub(z[x], mx)))]
        tot == RSum(w, I)
    IN  Eager([x \in I |-> Rat(w[x][1], tot[1])])

\* F.softmax(t, dim=0): normalised over the batch axis
SoftmaxDim0(t) ==
    LET I == DOMAIN t[CHOOSE b \in DOMAIN t : TRUE]
        cols == [x \in I |-> SoftmaxRow([b \in DOMAIN t |-> t[b][x]], DOMAIN t)]
    IN  Eager([b \in DOMAIN t |-> [x \in I |-> cols[x][b]]])

\* F.softmax(t, dim=1) of a tensor [batch, I]
Softmax(t) == Eager([b \in DOMAIN t |-> SoftmaxRow(t[b], DOMAIN t[b])])

\* the inner product of two vectors over Dims
Dot(u, v) == RSum([d \in Dims |-> RMul(u[d], v[d])], Dims)

\* the row vector u times the matrix W
VecMat(u, W) ==
    Eager([e \in Dims |-> RSum([d \in Dims |-> RMul(u[d], W[d][e])], Dims)])

\* torch.eye(EMBD_DIM)
eye == [d \in Dims |-> [e \in Dims |-> IF d = e THEN One ELSE Zero]]

ZeroVec == [d \in Dims |-> Zero]


\* ------------------------------------------------------------ inputs
\* to_glove is a placeholder for a pretrained lookup and the weights are
\* trainable, so the entries of the tables below are signed.

\* D = torch.stack([to_glove(t) for t in property_types]), one row per type
DTables ==
    { [j \in 1..(L + 2) |-> [d \in Dims |-> Q(((j + d) % 3) - 1)]],
      [j \in 1..(L + 2) |->
          [d \in Dims |-> IF j = L + 2 /\ d = 1 THEN Q(Precision) ELSE Zero]] }

\* S = torch.rand(BATCH, len(nodes), L+1, EMBD_DIM)
STensors ==
    { [b \in Batch |-> [n \in NodeIdx |-> [j \in 1..(L + 1) |->
          [d \in Dims |-> Q(((b + n + j + d) % 3) - 1)]]]] }

\* the values torch.rand(EMBD_DIM) is drawn from for an edge
EVecs ==
    { [d \in Dims |-> One],
      [d \in Dims |-> IF d = 1 THEN One ELSE Zero] }

\* the values torch.rand(EMBD_DIM) is drawn from for the sparse tensor, which
\* no later cell reads
SparseVecs == { [d \in Dims |-> One] }

\* the relations dictionaries: the notebook's own, and others over its nodes
\* (none, a key that pairs a node with itself, one edge, a chain)
RelationSets ==
    { { <<"person", "shirt">>, <<"person", "kitten">>, <<"kitten", "shirt">> },
      {},
      { <<"shirt", "shirt">> },
      { <<"person", "shirt">> },
      { <<"kitten", "person">>, <<"shirt", "shirt">> },
      { <<"person", "kitten">>, <<"kitten", "shirt">> } }

\* r, the N+1 reasoning instructions of each question (indices 0..N)
Instructions ==
    { [b \in Batch |-> [t \in 0..N |-> [d \in Dims |-> Q(((b + t + d) % 3) - 1)]]],
      [b \in Batch |-> [t \in 0..N |->
          [d \in Dims |-> IF d = 1 THEN Q(IF b = 1 THEN 1 ELSE -1) ELSE Q(t % 2)]]],
      [b \in Batch |-> [t \in 0..N |-> [d \in Dims |-> Q((b + t + d) % 2)]]] }

\* W_L_plus_1: the identity the notebook sets it to, and a trained value
W_L_plus_1_Values ==
    { eye,
      [d \in Dims |-> [e \in Dims |-> IF d = e THEN Q(-1) ELSE Zero]] }

\* the weight row of a bias-free nn.Linear(EMBD_DIM, 1)
LinearWeights ==
    { [d \in Dims |-> One],
      [d \in Dims |-> IF d = 1 THEN One ELSE Q(-1)] }

\* permutations(range(len(nodes)), 2) in the order itertools yields them
NumPairs == Len(nodes) * (Len(nodes) - 1)
Perm(k) ==
    LET a == ((k - 1) \div (Len(nodes) - 1)) + 1
        j == ((k - 1) % (Len(nodes) - 1)) + 1
    IN  <<a, IF j < a THEN j ELSE j + 1>>

\* ------------------------------------------------------------ state
VARIABLES
    pc,              \* the cell the notebook is about to run
    k,               \* the position of a construction loop in the permutations
    relations,       \* the keys of the relations dictionary
    D, S,            \* property-type embeddings, node states
    E, adjacency_mask,
    indices, values, \* the lists the sparse tensor is built from
    E_sparse,
    r,               \* the reasoning instructions
    i,               \* the recurrent step
    p_i,
    R_i,
    gamma_i_s, W_L_plus_1, gamma_i_e,
    W_r, p_i_r, W_s, p_i_s,
    m,
    updates,         \* history: how often p_i was replaced after line 206
    consumed,        \* history: the instruction indices read as r_i, in order
    summarized       \* history: the instruction indices read as r_N

vars == <<pc, k, relations, D, S, E, adjacency_mask, indices, values, E_sparse,
          r, i, p_i, R_i, gamma_i_s, W_L_plus_1, gamma_i_e, W_r, p_i_r, W_s,
          p_i_s, m, updates, consumed, summarized>>

graphVars == <<relations, D, S, E, adjacency_mask, indices, values, E_sparse>>
stepVars == <<R_i, gamma_i_s, W_L_plus_1, gamma_i_e, W_r, p_i_r, W_s, p_i_s>>
histVars == <<updates, consumed, summarized>>

None == <<>>

\* the state after the vocabulary, S and the zero tensors of lines 116-117
Init ==
    /\ pc = "dense"
    /\ k = 1
    /\ relations \in RelationSets
    /\ D \in DTables
    /\ S \in STensors
    /\ E = [b \in Batch |-> [y \in NodeIdx |-> [x \in NodeIdx |-> ZeroVec]]]
    /\ adjacency_mask = [b \in Batch |-> [y \in NodeIdx |-> [x \in NodeIdx |-> 0]]]
    /\ indices = <<>>
    /\ values = <<>>
    /\ E_sparse = None
    /\ r = None
    /\ i = 0
    /\ p_i = None
    /\ R_i = None
    /\ gamma_i_s = None
    /\ W_L_plus_1 = None
    /\ gamma_i_e = None
    /\ W_r = None
    /\ p_i_r = None
    /\ W_s = None
    /\ p_i_s = None
    /\ m = None
    /\ updates = 0
    /\ consumed = <<>>
    /\ summarized = <<>>

\* ------------------------------------------------------------ scene graph
\* the pair looked up the wrong way round
PairOfReversed(idx_pair) == <<nodes[idx_pair[2]], nodes[idx_pair[1]]>>

\* pair = tuple(nodes[idx] for idx in idx_pair)
PairOf(idx_pair) == <<nodes[idx_pair[1]], nodes[idx_pair[2]]>>

\* E[:, a, b] = v
SetEdge(T, idx_pair, v) ==
    Eager([b \in DOMAIN T |-> [T[b] EXCEPT ![idx_pair[1]][idx_pair[2]] = v]])

\* one iteration of the loop of lines 118-122
BuildDense ==
    /\ pc = "dense"
    /\ IF PairOf(Perm(k)) \in relations
       THEN \E v \in EVecs :
               /\ E' = SetEdge(E, Perm(k), v)
               /\ adjacency_mask' = SetEdge(adjacency_mask, Perm(k), 1)
       ELSE UNCHANGED <<E, adjacency_mask>>
    /\ IF k < NumPairs
       THEN k' = k + 1 /\ pc' = pc
       ELSE k' = 1 /\ pc' = "sparse"
    /\ UNCHANGED <<relations, D, S, indices, values, E_sparse, r, i, p_i, m>>
    /\ UNCHANGED stepVars
    /\ UNCHANGED histVars

\* one iteration of the loop of lines 128-132
BuildSparse ==
    /\ pc = "sparse"
    /\ IF PairOf(Perm(k)) \in relations
       THEN \E v \in SparseVecs :
               /\ indices' = Append(indices, Perm(k))
               /\ values' = Append(values, v)
       ELSE UNCHANGED <<indices, values>>
    /\ IF k < NumPairs
       THEN k' = k + 1 /\ pc' = pc
       ELSE k' = 1 /\ pc' = "sparse_adj"
    /\ UNCHANGED <<relations, D, S, E, adjacency_mask, E_sparse, r, i, p_i, m>>
    /\ UNCHANGED stepVars
    /\ UNCHANGED histVars

\* lines 134-140: torch.stack(values) raises on an empty list
StackSparse ==
    /\ pc = "sparse_adj"
    /\ IF values = <<>>
       THEN pc' = "raised" /\ UNCHANGED E_sparse
       ELSE /\ pc' = "instructions"
            /\ E_sparse' = [b \in Batch |->
                   [idx |-> indices, val |-> values,
                    size |-> <<Len(nodes), Len(nodes), EMBD_DIM>>]]
    /\ UNCHANGED <<k, relations, D, S, E, adjacency_mask, indices, values,
                   r, i, p_i, m>>
    /\ UNCHANGED stepVars
    /\ UNCHANGED histVars

\* ------------------------------------------------------------ instructions
\* lines 150-197: the encoder-decoder yields r of shape [BATCH, N+1, EMBD_DIM]
GenerateInstructions ==
    /\ pc = "instructions"
    /\ r' \in Instructions
    /\ pc' = "p_0"
    /\ UNCHANGED <<k, i, p_i, m>>
    /\ UNCHANGED graphVars
    /\ UNCHANGED stepVars
    /\ UNCHANGED histVars

\* ------------------------------------------------------------ simulation
\* p_i = torch.ones(BATCH, len(nodes)) / len(nodes)
Uniform == [b \in Batch |-> [x \in NodeIdx |-> Rat(1, Len(nodes))]]

InitialDistribution ==
    /\ pc = "p_0"
    /\ p_i' = Uniform
    /\ pc' = "R_i"
    /\ UNCHANGED <<k, r, i, m>>
    /\ UNCHANGED graphVars
    /\ UNCHANGED stepVars
    /\ UNCHANGED histVars

\* r[:, t, :]
InstructionAt(rr, t) == Eager([b \in DOMAIN rr |-> rr[b][t]])

\* F.softmax(torch.bmm(D.expand(..), r_i.unsqueeze(2)), dim=1).squeeze(2)
Relevance(Dm, r_i) ==
    Softmax(Eager([b \in DOMAIN r_i |-> [j \in DOMAIN Dm |-> Dot(Dm[j], r_i[b])]]))

\* R_i[:, -1]
r_i_prime_of(R) == Eager([b \in DOMAIN R |-> R[b][L + 2]])
\* R_i[:, :-1]
property_R_of(R) == Eager([b \in DOMAIN R |-> [j \in 1..(L + 1) |-> R[b][j]]])

\* lines 221-234: i = 0, r_i = r[:, i, :], R_i
ComputeR ==
    /\ pc = "R_i"
    /\ i' = 0
    /\ R_i' = Relevance(D, InstructionAt(r, i'))
    /\ consumed' = Append(consumed, i')
    /\ pc' = "gamma_s"
    /\ UNCHANGED <<k, r, p_i, m, updates, summarized>>
    /\ UNCHANGED graphVars
    /\ UNCHANGED <<gamma_i_s, W_L_plus_1, gamma_i_e, W_r, p_i_r, W_s, p_i_s>>

\* property_W: one identity per property type
property_W == [j \in 1..(L + 1) |-> eye]

\* F.elu(sum_j property_R_i[j] * ((S[.., j, :] @ W_j) * r_i)), lines 247-257
NodeScores(Sm, pW, pR, r_i) ==
    Eager([b \in DOMAIN Sm |-> [n \in NodeIdx |-> [d \in Dims |->
        ELU(RSum([j \in 1..(L + 1) |->
                    RMul(pR[b][j], RMul(VecMat(Sm[b][n][j], pW[j])[d], r_i[b][d]))],
                 1..(L + 1)))]]])

ComputeGammaS ==
    /\ pc = "gamma_s"
    /\ gamma_i_s' = NodeScores(S, property_W, property_R_of(R_i), InstructionAt(r, i))
    /\ pc' = "gamma_e"
    /\ UNCHANGED <<k, r, i, p_i, m, R_i, W_L_plus_1, gamma_i_e, W_r, p_i_r, W_s, p_i_s>>
    /\ UNCHANGED graphVars
    /\ UNCHANGED histVars

\* F.elu((E.view(..) @ W_L_plus_1) * r_i).view(BATCH, n, n, EMBD_DIM), lines 287-292
EdgeScores(Em, W, r_i) ==
    Eager([b \in DOMAIN Em |-> [y \in NodeIdx |-> [x \in NodeIdx |-> [d \in Dims |->
        ELU(RMul(VecMat(Em[b][y][x], W)[d], r_i[b][d]))]]]])

ComputeGammaE ==
    /\ pc = "gamma_e"
    /\ W_L_plus_1' \in W_L_plus_1_Values
    /\ gamma_i_e' = EdgeScores(E, W_L_plus_1', InstructionAt(r, i))
    /\ pc' = "p_i_r"
    /\ UNCHANGED <<k, r, i, p_i, m, R_i, gamma_i_s, W_r, p_i_r, W_s, p_i_s>>
    /\ UNCHANGED graphVars
    /\ UNCHANGED histVars

\* p_i laid along axis 2 and axis 2 summed away: mass flows target to source
MassFlowReversed(ge, p) ==
    [b \in DOMAIN ge |-> [x \in NodeIdx |-> [d \in Dims |->
        RSum([y \in NodeIdx |-> RMul(ge[b][x][y][d], p[b][y])], NodeIdx)]]]

\* torch.sum(torch.mul(gamma_i_e, p_i.view(BATCH, -1, 1, 1)), dim=1): p_i is laid
\* along axis 1 of gamma_i_e and that axis is summed away, which leaves axis 2
MassFlow(ge, p) ==
    Eager([b \in DOMAIN ge |-> [x \in NodeIdx |-> [d \in Dims |->
        RSum([y \in NodeIdx |-> RMul(ge[b][y][x][d], p[b][y])], NodeIdx)]]])

\* a bias-free nn.Linear(EMBD_DIM, 1) on the last axis, squeezed
Linear(w, t) == Eager([b \in DOMAIN t |-> [x \in NodeIdx |-> Dot(t[b][x], w)]])

\* the argument of the softmax of lines 304-310
RelationalLogits(ge, p, w) == Linear(w, MassFlow(ge, p))

RelationalUpdate(ge, p, w) == Softmax(RelationalLogits(ge, p, w))

ComputePR ==
    /\ pc = "p_i_r"
    /\ W_r' \in LinearWeights
    /\ p_i_r' = RelationalUpdate(gamma_i_e, p_i, W_r')
    /\ pc' = "p_i_s"
    /\ UNCHANGED <<k, r, i, p_i, m, R_i, gamma_i_s, W_L_plus_1, gamma_i_e, W_s, p_i_s>>
    /\ UNCHANGED graphVars
    /\ UNCHANGED histVars

\* F.softmax(W_s(gamma_i_s).squeeze(2), dim=1), line 352
PropertyUpdate(gs, w) == Softmax(Linear(w, gs))

ComputePS ==
    /\ pc = "p_i_s"
    /\ W_s' \in LinearWeights
    /\ p_i_s' = PropertyUpdate(gamma_i_s, W_s')
    /\ pc' = "p_i"
    /\ UNCHANGED <<k, r, i, p_i, m, R_i, gamma_i_s, W_L_plus_1, gamma_i_e, W_r, p_i_r>>
    /\ UNCHANGED graphVars
    /\ UNCHANGED histVars

\* the blend without the complement of the gate
BlendNoComplement(gate, pr, ps) ==
    [b \in DOMAIN pr |-> [x \in NodeIdx |->
        RAdd(RMul(gate[b], pr[b][x]), ps[b][x])]]

\* the blend gated by the first batch element's gate
BlendSharedGate(gate, pr, ps) ==
    LET g == gate[CHOOSE b \in DOMAIN gate : \A c \in DOMAIN gate : b <= c]
    IN  [b \in DOMAIN pr |-> [x \in NodeIdx |->
            RAdd(RMul(g, pr[b][x]), RMul(RSub(One, g), ps[b][x]))]]

\* r_i_prime * p_i_r + (1 - r_i_prime) * p_i_s, line 362
Blend(gate, pr, ps) ==
    Eager([b \in DOMAIN pr |-> [x \in NodeIdx |->
        RAdd(RMul(gate[b], pr[b][x]), RMul(RSub(One, gate[b]), ps[b][x]))]])

UpdateP ==
    /\ pc = "p_i"
    /\ p_i' = Blend(r_i_prime_of(R_i), p_i_r, p_i_s)
    /\ updates' = updates + 1
    /\ pc' = "final"
    /\ UNCHANGED <<k, r, i, m, consumed, summarized>>
    /\ UNCHANGED graphVars
    /\ UNCHANGED stepVars

\* ------------------------------------------------------------ final classifier
\* torch.bmm(p_i.unsqueeze(1), torch.sum(property_R_N.view(..) * S, dim=2))
Summary(p, pR, Sm) ==
    Eager([b \in DOMAIN p |-> [d \in Dims |->
        RSum([n \in NodeIdx |->
                RMul(p[b][n],
                     RSum([j \in 1..(L + 1) |-> RMul(pR[b][j], Sm[b][n][j][d])],
                          1..(L + 1)))],
             NodeIdx)]])

\* lines 371-381: r_N = r[:, N, :], property_R_N, m
Summarize ==
    /\ pc = "final"
    /\ m' = Summary(p_i, property_R_of(Relevance(D, InstructionAt(r, N))), S)
    /\ summarized' = Append(summarized, N)
    /\ pc' = "done"
    /\ UNCHANGED <<k, r, i, p_i, updates, consumed>>
    /\ UNCHANGED graphVars
    /\ UNCHANGED stepVars

Next ==
    \/ BuildDense
    \/ BuildSparse
    \/ StackSparse
    \/ GenerateInstructions
    \/ InitialDistribution
    \/ ComputeR
    \/ ComputeGammaS
    \/ ComputeGammaE
    \/ ComputePR
    \/ ComputePS
    \/ UpdateP
    \/ Summarize

Spec == Init /\ [][Next]_vars

\* ------------------------------------------------------------ the alternative
\* adj = gamma_i_e.sum(dim=3) > 0, line 319
adj(ge) ==
    Eager([b \in DOMAIN ge |-> [y \in NodeIdx |-> [x \in NodeIdx |->
        RLt(Zero, RSum(ge[b][y][x], Dims))]]])

\* the loop of lines 325-337
alt_p_i_r(ge, p, w) ==
    Softmax(Linear(w,
        [b \in DOMAIN ge |-> [x \in NodeIdx |-> [d \in Dims |->
            RSum([y \in NodeIdx |->
                    IF adj(ge)[b][y][x] THEN RMul(p[b][y], ge[b][y][x][d]) ELSE Zero],
                 NodeIdx)]]]))

\* ------------------------------------------------------------ a whole run
\* the tensor t cut down to the batch elements B
Restrict(t, B) == Eager([b \in B |-> t[b]])

\* the cells of lines 206-381 on a batch: the final p_i and m
Forward(Dm, Sm, Em, rr, WL, Wr, Ws) ==
    LET r_i == InstructionAt(rr, i)
        R == Relevance(Dm, r_i)
        p_0 == Restrict(Uniform, DOMAIN rr)
        pr == RelationalUpdate(EdgeScores(Em, WL, r_i), p_0, Wr)
        ps == PropertyUpdate(NodeScores(Sm, property_W, property_R_of(R), r_i), Ws)
        p == Blend(r_i_prime_of(R), pr, ps)
    IN  [p_i |-> p,
         m |-> Summary(p, property_R_of(Relevance(Dm, InstructionAt(rr, N))), Sm)]

ForwardOn(B) ==
    Forward(D, Restrict(S, B), Restrict(E, B), Restrict(r, B), W_L_plus_1, W_r, W_s)

\* ------------------------------------------------------------ claims
AfterDense == pc # "dense"
AfterSparse == pc \notin {"dense", "sparse"}
\* p_i_r is computed and p_i is still the distribution it was computed from
AfterPR == pc \in {"p_i_s", "p_i"}
AfterBlend == pc \in {"final", "done"}

\* the node pairs of batch element 1 (the graph is the same in every element)
Present(y, x) == adjacency_mask[1][y][x] = 1
Absent(y, x) == adjacency_mask[1][y][x] = 0

IsDistribution(p) ==
    \A b \in DOMAIN p :
        /\ \A x \in NodeIdx : p[b][x][1] >= 0 /\ p[b][x][2] > 0
        /\ RSum(p[b], NodeIdx) = One

\* C1: whenever p_i is set (the uniform p_0 and the p_i after the step), every
\* entry of it is >= 0 and the entries of each batch element sum to 1.
C1_Distribution == p_i # None => IsDistribution(p_i)

C1_Witness == pc = "final" /\ updates = 1 /\ p_i # Uniform

\* C2: once p_i_r is computed, storing any other embedding at a pair whose
\* adjacency flag is 0 and recomputing gamma_i_e and p_i_r gives the same p_i_r.
C2_AbsentEdgeInvariance ==
    AfterPR =>
        \A y \in NodeIdx, x \in NodeIdx : \A v \in EVecs :
            Absent(y, x) =>
                RelationalUpdate(
                    EdgeScores(SetEdge(E, <<y, x>>, v), W_L_plus_1, InstructionAt(r, i)),
                    p_i, W_r) = p_i_r

\* C3: when the notebook is done, p_i has been replaced exactly N times, once
\* per step, so the classifier read the p_i of step N-1.
C3_ExactlyNSteps == pc = "done" => updates = N

\* C4: after the blend, a batch element whose gate r_i' is 0 has p_i = p_i_s
\* and one whose gate is 1 has p_i = p_i_r, whatever the other elements' gates.
C4_Blend ==
    AfterBlend =>
        \A b \in Batch :
            /\ r_i_prime_of(R_i)[b] = Zero => p_i[b] = p_i_s[b]
            /\ r_i_prime_of(R_i)[b] = One => p_i[b] = p_i_r[b]

C4_Witness ==
    /\ pc = "final"
    /\ \E b \in Batch, c \in Batch :
        /\ r_i_prime_of(R_i)[b] = Zero
        /\ r_i_prime_of(R_i)[c] = One
        /\ p_i_r[b] # p_i_s[b]
        /\ p_i_r[c] # p_i_s[c]

\* C5: r holds N+1 instructions per batch element; when the notebook is done
\* the steps have read r[0], .., r[N-1], each once and in this order, and r[N]
\* was read by the final classifier only.
C5_ConsumptionOrder ==
    pc = "done" =>
        /\ \A b \in Batch : DOMAIN r[b] = 0..N
        /\ consumed = [t \in 1..N |-> t - 1]
        /\ summarized = <<N>>

\* C6: when the notebook is done, running it on the first c batch elements
\* alone and on the others alone gives, element by element, the p_i and the m
\* of the run on the whole batch.
C6_BatchIndependence ==
    pc = "done" =>
        \A c \in 1..(BATCH - 1) :
            /\ ForwardOn(1..c) =
                   [p_i |-> Restrict(p_i, 1..c), m |-> Restrict(m, 1..c)]
            /\ ForwardOn((c + 1)..BATCH) =
                   [p_i |-> Restrict(p_i, (c + 1)..BATCH),
                    m |-> Restrict(m, (c + 1)..BATCH)]

C6_Witness ==
    /\ pc = "done"
    /\ \E b \in Batch, c \in Batch : p_i[b] # p_i[c] /\ m[b] # m[c]

C8_SourceToTarget ==
    AfterPR =>
        /\ p_i_r = Softmax([b \in Batch |-> [s \in NodeIdx |->
               Dot(W_r, [d \in Dims |->
                   RSum([sp \in NodeIdx |-> RMul(p_i[b][sp], gamma_i_e[b][sp][s][d])],
                        NodeIdx)])]])
        /\ \A b \in Batch, s \in NodeIdx :
               (\A sp \in NodeIdx : <<nodes[sp], nodes[s]>> \notin relations)
                   => RelationalLogits(gamma_i_e, p_i, W_r)[b][s] = Zero

\* a node with an outgoing and no incoming relation, whose target gets a score
C8_Witness ==
    /\ pc = "p_i_s"
    /\ \E b \in Batch, sp \in NodeIdx, s \in NodeIdx :
        /\ Present(sp, s)
        /\ \A y \in NodeIdx : Absent(y, sp)
        /\ RelationalLogits(gamma_i_e, p_i, W_r)[b][s] # Zero
        /\ RelationalLogits(gamma_i_e, p_i, W_r)[b][sp] = Zero

\* C9: once the dense loop is over, adjacency_mask[a, b] is 1 exactly when
\* a # b and (nodes[a], nodes[b]) is a key of relations, and everywhere else E
\* is the zero vector; once the sparse loop is over, indices holds exactly the
\* pairs whose flag is 1.
C9_SceneGraph ==
    /\ AfterDense =>
          \A bt \in Batch, a \in NodeIdx, b \in NodeIdx :
              IF a # b /\ <<nodes[a], nodes[b]>> \in relations
              THEN adjacency_mask[bt][a][b] = 1
              ELSE adjacency_mask[bt][a][b] = 0 /\ E[bt][a][b] = ZeroVec
    /\ AfterSparse =>
          /\ {indices[n] : n \in DOMAIN indices} =
                 {pr \in NodeIdx \X NodeIdx : Present(pr[1], pr[2])}
          /\ Len(indices) = Cardinality({indices[n] : n \in DOMAIN indices})

C9_Witness ==
    /\ pc = "sparse_adj"
    /\ <<"shirt", "shirt">> \in relations
    /\ \E a \in NodeIdx, b \in NodeIdx : Present(a, b) /\ E[1][a][b] # ZeroVec
    /\ \E a \in NodeIdx, b \in NodeIdx : a # b /\ Absent(a, b)
    /\ Len(indices) >= 1

\* the sum of MassFlow over the sources whose adjacency flag is 1 only
MaskedMassFlow(ge, mask, p) ==
    [b \in DOMAIN ge |-> [x \in NodeIdx |-> [d \in Dims |->
        RSum([y \in NodeIdx |->
                IF mask[b][y][x] = 1 THEN RMul(ge[b][y][x][d], p[b][y]) ELSE Zero],
             NodeIdx)]]]

\* C10: once gamma_i_e is computed it is the zero vector at every pair whose
\* flag is 0, and the sum over all sources that p_i_r is computed from equals
\* the sum over the sources whose flag is 1.
C10_AbsentEdgesSilent ==
    /\ gamma_i_e # None =>
          \A b \in Batch, y \in NodeIdx, x \in NodeIdx :
              adjacency_mask[b][y][x] = 0 => gamma_i_e[b][y][x] = ZeroVec
    /\ AfterPR => MassFlow(gamma_i_e, p_i) = MaskedMassFlow(gamma_i_e, adjacency_mask, p_i)

C10_Witness ==
    /\ pc = "p_i_s"
    /\ W_L_plus_1 # eye
    /\ \E y \in NodeIdx, x \in NodeIdx : y # x /\ Absent(y, x)
    /\ \E b \in Batch, y \in NodeIdx, x \in NodeIdx :
          Present(y, x) /\ gamma_i_e[b][y][x] # ZeroVec
    /\ \E b \in Batch : \A d \in Dims : r[b][i][d] # Zero

=============================================================================
